---- MODULE Spec2Model ----
(***************************************************************************)
(* Model of the conference deadline dashboard (app/page.tsx): the          *)
(* recurrence resolver getNextOccurrence, the countdown formatter          *)
(* formatCountdown, the comparator compareConferences, the area grouping   *)
(* of the sectioned view, and the Home component's state (now, viewMode,   *)
(* sort) with its handlers.                                                *)
(*                                                                         *)
(* Representation.                                                         *)
(*  - A Date is [s |-> whole seconds since the Unix epoch, ms |-> 0..999];  *)
(*    getTime() is s * 1000 + ms.  The two parts are kept apart because a   *)
(*    millisecond count of a year in the 2020s exceeds TLC's integers.      *)
(*  - A string is the tuple of its letters' collation ranks (A = 1 ... Z =  *)
(*    26); localeCompare is the lexicographic comparison of such tuples.    *)
(*  - An optional field (area?, deadline?, location?) is <<>> when it is    *)
(*    undefined and <<v>> when it holds v.                                  *)
(***************************************************************************)
EXTENDS Integers, Sequences, FiniteSets, TLC

VARIABLES
    now,          \* Home: const [now, setNow] = useState(() => new Date())
    viewMode,     \* Home: "combined" | "sectioned"
    sort,         \* Home: SortState [key, direction]
    conferences,  \* the catalog imported from @/data/conferences
    areaOrder,    \* the area sequence imported from @/data/conferences
    pc,           \* position of the call under evaluation: "call" | "done" | "idle"
    arg,          \* arguments of the pure function under evaluation
    ret           \* its result

vars == <<now, viewMode, sort, conferences, areaOrder, pc, arg, ret>>

-----------------------------------------------------------------------------
(* Bounds of the model *)

\* first UTC year of the pivots and clock values explored
BaseYear == 2024
\* number of consecutive UTC years the pivots are taken from
MaxYears == 2
\* largest number of entries of a catalog
MaxCatalog == 3
\* largest number of entries of a catalog the upcoming projection is taken of
MaxUpcoming == 6

-----------------------------------------------------------------------------
(* Optional values and strings *)

None == <<>>
Some(v) == <<v>>
IsSome(o) == o # <<>>
Get(o) == o[1]

RECURSIVE LexCompare(_, _)
LexCompare(x, y) ==
    IF x = <<>> /\ y = <<>> THEN 0
    ELSE IF x = <<>> THEN -1
    ELSE IF y = <<>> THEN 1
    ELSE IF Head(x) < Head(y) THEN -1
    ELSE IF Head(x) > Head(y) THEN 1
    ELSE LexCompare(Tail(x), Tail(y))

\* String.prototype.localeCompare
localeCompare(x, y) == LexCompare(x, y)

-----------------------------------------------------------------------------
(* Dates: the ECMAScript time arithmetic behind new Date(isoString),       *)
(* getTime() and getUTCFullYear()                                          *)

SecondsPerDay == 24 * 60 * 60

DayFromYear(y) ==
    365 * (y - 1970) + ((y - 1969) \div 4) - ((y - 1901) \div 100)
        + ((y - 1601) \div 400)

InLeapYear(y) == DayFromYear(y + 1) - DayFromYear(y) = 366

\* days of a common year before the first of each month
DaysBeforeMonth == <<0, 31, 59, 90, 120, 151, 181, 212, 243, 273, 304, 334>>

\* MakeDay(year, month, date): day number of a calendar date
MakeDay(y, m, d) ==
    DayFromYear(y) + DaysBeforeMonth[m] + (IF m > 2 /\ InLeapYear(y) THEN 1 ELSE 0)
        + (d - 1)

\* An instant given by UTC fields
DateUTC(y, m, d, h, mi, sec, ms) ==
    [s |-> MakeDay(y, m, d) * SecondsPerDay + h * 3600 + mi * 60 + sec, ms |-> ms]

\* Comparisons of getTime() values
TimeEq(x, y) == x.s = y.s /\ x.ms = y.ms
TimeLt(x, y) == x.s < y.s \/ (x.s = y.s /\ x.ms < y.ms)
TimeLeq(x, y) == TimeLt(x, y) \/ TimeEq(x, y)

\* the UTC years of the explored pivots and clock values, and the years a
\* resolved occurrence can fall in
PivotYears == BaseYear..(BaseYear + MaxYears - 1)
Years == (BaseYear - 2)..(BaseYear + MaxYears + 2)

\* Date.prototype.getUTCFullYear
getUTCFullYear(date) ==
    CHOOSE y \in Years :
        /\ DayFromYear(y) * SecondsPerDay <= date.s
        /\ date.s < DayFromYear(y + 1) * SecondsPerDay

\* pad(value): value.toString().padStart(2, "0"), as the tuple of its digits
RECURSIVE Digits(_)
Digits(n) == IF n < 10 THEN <<n>> ELSE Append(Digits(n \div 10), n % 10)

pad(value) == IF Len(Digits(value)) < 2 THEN <<0>> \o Digits(value) ELSE Digits(value)

\* the number a run of decimal digits denotes
RECURSIVE ParsePrefix(_, _)
ParsePrefix(ds, n) == IF n = 0 THEN 0 ELSE ParsePrefix(ds, n - 1) * 10 + ds[n]

ParseDigits(ds) == ParsePrefix(ds, Len(ds))

\* The template string `${year}-${MM}-${DD}T${hh}:${mm}:00${offset}` as its fields.
\* An offset "+hh:mm" / "-hh:mm" is [sign |-> 1 or -1, hh |-> digits, mm |-> digits].
IsoString(year, deadline) ==
    [year   |-> Digits(year),
     month  |-> pad(deadline.month),
     day    |-> pad(deadline.day),
     hour   |-> pad(deadline.hour),
     minute |-> pad(deadline.minute),
     second |-> <<0, 0>>,
     offset |-> deadline.offset]

\* new Date(isoString): the local fields read as UTC, minus the offset
DateParse(str) ==
    LET local == DateUTC(ParseDigits(str.year), ParseDigits(str.month),
                         ParseDigits(str.day), ParseDigits(str.hour),
                         ParseDigits(str.minute), ParseDigits(str.second), 0)
        off == str.offset.sign
                 * (ParseDigits(str.offset.hh) * 3600 + ParseDigits(str.offset.mm) * 60)
    IN  [s |-> local.s - off, ms |-> 0]

-----------------------------------------------------------------------------
(* Recurrence resolver *)

buildDate(deadline, year) == DateParse(IsoString(year, deadline))

getNextOccurrence(deadline, pivot) ==
    LET baseYear == getUTCFullYear(pivot)
        candidate == buildDate(deadline, baseYear)
    IN  IF TimeLeq(candidate, pivot)
        THEN buildDate(deadline, baseYear + 1)
        ELSE candidate

-----------------------------------------------------------------------------
(* Countdown formatter *)

\* target.getTime() - now.getTime() in milliseconds, as
\* [s |-> Math.floor(diff / 1000), ms |-> diff - 1000 * s]
TimeDiff(target, pivot) ==
    IF target.ms >= pivot.ms
    THEN [s |-> target.s - pivot.s, ms |-> target.ms - pivot.ms]
    ELSE [s |-> target.s - pivot.s - 1, ms |-> target.ms - pivot.ms + 1000]

\* formatCountdown with the test diff < 0 in place of diff <= 0
formatCountdownStrict(target, pivot) ==
    LET diff == TimeDiff(target, pivot)
        totalSeconds == diff.s
        days == totalSeconds \div SecondsPerDay
        hours == (totalSeconds % SecondsPerDay) \div (60 * 60)
        minutes == (totalSeconds % (60 * 60)) \div 60
        seconds == totalSeconds % 60
    IN  IF diff.s < 0 THEN "Closed"
        ELSE IF days > 0
        THEN ToString(days) \o "d " \o ToString(hours) \o "h " \o ToString(minutes) \o "m"
        ELSE IF hours > 0
        THEN ToString(hours) \o "h " \o ToString(minutes) \o "m " \o ToString(seconds) \o "s"
        ELSE ToString(minutes) \o "m " \o ToString(seconds) \o "s"

formatCountdown(target, pivot) ==
    LET diff == TimeDiff(target, pivot)
        totalSeconds == diff.s
        days == totalSeconds \div SecondsPerDay
        hours == (totalSeconds % SecondsPerDay) \div (60 * 60)
        minutes == (totalSeconds % (60 * 60)) \div 60
        seconds == totalSeconds % 60
    IN  IF diff.s < 0 \/ (diff.s = 0 /\ diff.ms = 0) THEN "Closed"
        ELSE IF days > 0
        THEN ToString(days) \o "d " \o ToString(hours) \o "h " \o ToString(minutes) \o "m"
        ELSE IF hours > 0
        THEN ToString(hours) \o "h " \o ToString(minutes) \o "m " \o ToString(seconds) \o "s"
        ELSE ToString(minutes) \o "m " \o ToString(seconds) \o "s"

-----------------------------------------------------------------------------
(* Area labels and ranks *)

\* the label "Other Conferences"
OtherConferences == <<15, 20, 8, 5, 18>>

DEFAULT_AREA_ORDER == <<OtherConferences>>

\* areaPriority[label]: the index (from 0) the reduce assigns last to the label
\* in [...areaOrder, ...DEFAULT_AREA_ORDER], or None when it assigns none
areaPriority(label) ==
    LET all == areaOrder \o DEFAULT_AREA_ORDER
        at == {i \in DOMAIN all : all[i] = label}
    IN  IF at = {} THEN None
        ELSE Some((CHOOSE i \in at : \A j \in at : j <= i) - 1)

\* areaLabelFor that files every label outside areaOrder under "Other Conferences"
areaLabelForListedOnly(conf) ==
    IF IsSome(conf.area) /\ (\E i \in DOMAIN areaOrder : areaOrder[i] = Get(conf.area))
    THEN Get(conf.area)
    ELSE DEFAULT_AREA_ORDER[1]

areaLabelFor(conf) ==
    IF IsSome(conf.area) THEN Get(conf.area) ELSE DEFAULT_AREA_ORDER[1]

\* compareAreaLabels with an unknown label ranked before every known one
compareAreaLabelsUnknownFirst(a, b) ==
    LET rank(label) ==
            IF label = <<>> THEN -1
            ELSE IF IsSome(areaPriority(label)) THEN Get(areaPriority(label))
            ELSE -1
        rankA == rank(a)
        rankB == rank(b)
    IN  IF rankA # rankB THEN rankA - rankB ELSE localeCompare(a, b)

compareAreaLabels(a, b) ==
    LET rank(label) ==
            IF label = <<>> THEN Len(areaOrder) + 1
            ELSE IF IsSome(areaPriority(label)) THEN Get(areaPriority(label))
            ELSE Len(areaOrder) + 1
        rankA == rank(a)
        rankB == rank(b)
    IN  IF rankA # rankB THEN rankA - rankB ELSE localeCompare(a, b)

-----------------------------------------------------------------------------
(* Comparator engine *)

\* x.getTime() - y.getTime(), in seconds when the instants differ by a second
\* or more and in milliseconds otherwise: callers read its sign
TimeMinus(x, y) == IF x.s # y.s THEN x.s - y.s ELSE x.ms - y.ms

\* a.location ?? ""
locationOrEmpty(conf) == IF IsSome(conf.location) THEN Get(conf.location) ELSE <<>>

\* Boolean(a.deadline && !a.isRolling)
hasDeadline(conf) == IsSome(conf.deadline) /\ ~conf.isRolling

\* defaultCompare that puts an entry without a usable deadline first
defaultCompareUndatedFirst(a, b, pivot) ==
    IF hasDeadline(a) /\ hasDeadline(b)
    THEN LET nextA == getNextOccurrence(Get(a.deadline), pivot)
             nextB == getNextOccurrence(Get(b.deadline), pivot)
         IN  IF ~TimeEq(nextA, nextB) THEN TimeMinus(nextA, nextB)
             ELSE localeCompare(a.acronym, b.acronym)
    ELSE IF hasDeadline(a) THEN 1
    ELSE IF hasDeadline(b) THEN -1
    ELSE localeCompare(a.acronym, b.acronym)

defaultCompare(a, b, pivot) ==
    IF hasDeadline(a) /\ hasDeadline(b)
    THEN LET nextA == getNextOccurrence(Get(a.deadline), pivot)
             nextB == getNextOccurrence(Get(b.deadline), pivot)
         IN  IF ~TimeEq(nextA, nextB) THEN TimeMinus(nextA, nextB)
             ELSE localeCompare(a.acronym, b.acronym)
    ELSE IF hasDeadline(a) THEN -1
    ELSE IF hasDeadline(b) THEN 1
    ELSE localeCompare(a.acronym, b.acronym)

\* Number.POSITIVE_INFINITY and Number.isFinite on a time value
POSITIVE_INFINITY == None
isFinite(value) == IsSome(value)

\* the time value the deadline and countdown keys sort by
deadlineValue(conf, pivot) ==
    IF ~conf.isRolling /\ IsSome(conf.deadline)
    THEN Some(getNextOccurrence(Get(conf.deadline), pivot))
    ELSE POSITIVE_INFINITY

\* the "deadline" / "countdown" case of compareConferences
compareByDeadline(a, b, direction, pivot) ==
    LET valueA == deadlineValue(a, pivot)
        valueB == deadlineValue(b, pivot)
        aFinite == isFinite(valueA)
        bFinite == isFinite(valueB)
    IN  IF aFinite /\ bFinite
        THEN IF TimeEq(Get(valueA), Get(valueB))
             THEN direction * localeCompare(a.acronym, b.acronym)
             ELSE direction * (IF TimeLt(Get(valueA), Get(valueB)) THEN -1 ELSE 1)
        ELSE IF aFinite /\ ~bFinite THEN direction * (-1)
        ELSE IF ~aFinite /\ bFinite THEN direction * 1
        ELSE direction * localeCompare(a.acronym, b.acronym)

\* compareConferences whose location case drops the acronym tie-break
compareConferencesNoTieBreak(a, b, sortSpec, pivot) ==
    IF sortSpec.key = "default" THEN defaultCompare(a, b, pivot)
    ELSE
    LET direction == IF sortSpec.direction = "asc" THEN 1 ELSE -1 IN
    CASE sortSpec.key = "area" ->
           LET areaCompare == compareAreaLabels(areaLabelFor(a), areaLabelFor(b))
           IN  IF areaCompare # 0 THEN direction * areaCompare
               ELSE direction * localeCompare(a.acronym, b.acronym)
      [] sortSpec.key = "acronym" ->
           direction * localeCompare(a.acronym, b.acronym)
      [] sortSpec.key = "location" ->
           LET byLocation == localeCompare(locationOrEmpty(a), locationOrEmpty(b))
           IN  direction * (IF byLocation # 0 THEN byLocation ELSE 1)
      [] sortSpec.key \in {"deadline", "countdown"} ->
           compareByDeadline(a, b, direction, pivot)
      [] OTHER -> defaultCompare(a, b, pivot)

compareConferences(a, b, sortSpec, pivot) ==
    IF sortSpec.key = "default" THEN defaultCompare(a, b, pivot)
    ELSE
    LET direction == IF sortSpec.direction = "asc" THEN 1 ELSE -1 IN
    CASE sortSpec.key = "area" ->
           LET areaCompare == compareAreaLabels(areaLabelFor(a), areaLabelFor(b))
           IN  IF areaCompare # 0 THEN direction * areaCompare
               ELSE direction * localeCompare(a.acronym, b.acronym)
      [] sortSpec.key = "acronym" ->
           direction * localeCompare(a.acronym, b.acronym)
      [] sortSpec.key = "location" ->
           LET byLocation == localeCompare(locationOrEmpty(a), locationOrEmpty(b))
               result == IF byLocation # 0 THEN byLocation
                         ELSE localeCompare(a.acronym, b.acronym)
           IN  direction * result
      [] sortSpec.key \in {"deadline", "countdown"} ->
           compareByDeadline(a, b, direction, pivot)
      [] OTHER -> defaultCompare(a, b, pivot)

-----------------------------------------------------------------------------
(* View projector *)

\* Array.prototype.sort with compareConferences as comparator: the stable
\* order, built by inserting each row after the rows that do not follow it
RECURSIVE sortConferences(_, _, _)
sortConferences(rows, sortSpec, pivot) ==
    IF rows = <<>> THEN <<>>
    ELSE LET front == sortConferences(SubSeq(rows, 1, Len(rows) - 1), sortSpec, pivot)
             last == rows[Len(rows)]
             k == Cardinality({i \in DOMAIN front :
                      compareConferences(front[i], last, sortSpec, pivot) <= 0})
         IN  SubSeq(front, 1, k) \o <<last>> \o SubSeq(front, k + 1, Len(front))


\* Object.keys(grouped): the labels of the catalog in first-seen order
RECURSIVE groupedKeys(_)
groupedKeys(catalog) ==
    IF catalog = <<>> THEN <<>>
    ELSE LET front == groupedKeys(SubSeq(catalog, 1, Len(catalog) - 1))
             key == areaLabelFor(catalog[Len(catalog)])
         IN  IF \E i \in DOMAIN front : front[i] = key THEN front
             ELSE Append(front, key)

\* grouped[area] ?? []: the entries filed under a label, in catalog order
grouped(area) ==
    LET Under(conf) == areaLabelFor(conf) = area IN SelectSeq(conferences, Under)

resolveAreaOrder ==
    LET Unreferenced(area) == ~\E i \in DOMAIN areaOrder : areaOrder[i] = area
        extraAreas == SelectSeq(groupedKeys(conferences), Unreferenced)
        NonEmpty(area) == Len(grouped(area)) > 0
    IN  SelectSeq(areaOrder \o extraAreas \o DEFAULT_AREA_ORDER, NonEmpty)

areaKeys == resolveAreaOrder

sortedByArea(area) == sortConferences(grouped(area), sort, now)

\* the sections of the sectioned view: areaKeys.map, with the rows of each
SectionedView ==
    [i \in DOMAIN areaKeys |-> [area |-> areaKeys[i], rows |-> sortedByArea(areaKeys[i])]]

\* Array.prototype.sort with (a, b) => a.date.getTime() - b.date.getTime():
\* the stable order by resolved instant
RECURSIVE sortByDate(_)
sortByDate(rows) ==
    IF rows = <<>> THEN <<>>
    ELSE LET front == sortByDate(SubSeq(rows, 1, Len(rows) - 1))
             last == rows[Len(rows)]
             k == Cardinality({i \in DOMAIN front : TimeMinus(front[i].date, last.date) <= 0})
         IN  SubSeq(front, 1, k) \o <<last>> \o SubSeq(front, k + 1, Len(front))

\* the dated, non-rolling entries of the catalog with their resolved instants
resolvedEntries ==
    LET Dated(conf) == IsSome(conf.deadline) /\ ~conf.isRolling
        dated == SelectSeq(conferences, Dated)
    IN  [i \in DOMAIN dated |->
            [conf |-> dated[i], date |-> getNextOccurrence(Get(dated[i].deadline), now)]]

\* upcoming without the sort: the first four dated entries in catalog order
upcomingUnsorted ==
    SubSeq(resolvedEntries, 1, IF Len(resolvedEntries) < 4 THEN Len(resolvedEntries) ELSE 4)

\* the upcoming projection: filter, map, sort, slice(0, 4)
upcoming ==
    LET sorted == sortByDate(resolvedEntries)
    IN  SubSeq(sorted, 1, IF Len(sorted) < 4 THEN Len(sorted) ELSE 4)

-----------------------------------------------------------------------------
(* Home: state and handlers *)

\* the updater handleSort passes to setSort, with the descending case
\* returning to ascending instead of the default key
nextSortNoReset(prev, key) ==
    IF prev.key = key /\ prev.direction = "asc" THEN [key |-> key, direction |-> "desc"]
    ELSE [key |-> key, direction |-> "asc"]

\* the updater of handleSort returning to the default key without resetting
\* the direction
nextSortKeepDirection(prev, key) ==
    IF prev.key = key /\ prev.direction = "asc" THEN [key |-> key, direction |-> "desc"]
    ELSE IF prev.key = key /\ prev.direction = "desc"
    THEN [key |-> "default", direction |-> prev.direction]
    ELSE [key |-> key, direction |-> "asc"]

\* the updater handleSort passes to setSort
nextSort(prev, key) ==
    IF prev.key = key /\ prev.direction = "asc" THEN [key |-> key, direction |-> "desc"]
    ELSE IF prev.key = key /\ prev.direction = "desc"
    THEN [key |-> "default", direction |-> "asc"]
    ELSE [key |-> key, direction |-> "asc"]

\* the column headers rendered in a view: the sectioned tables have no Area column
HeaderKeys(mode) ==
    IF mode = "combined"
    THEN {"area", "acronym", "deadline", "countdown", "location"}
    ELSE {"acronym", "deadline", "countdown", "location"}

\* a click on the header of column key
HandleSort(key) ==
    /\ pc = "idle"
    /\ key \in HeaderKeys(viewMode)
    /\ sort' = nextSort(sort, key)
    /\ UNCHANGED <<now, viewMode, conferences, areaOrder, pc, arg, ret>>

\* handleViewChange without the reset of the area key
HandleViewChangeKeepSort(next) ==
    /\ pc = "idle"
    /\ viewMode' = next
    /\ UNCHANGED <<now, sort, conferences, areaOrder, pc, arg, ret>>

\* a click on a view option
HandleViewChange(next) ==
    /\ pc = "idle"
    /\ viewMode' = next
    /\ sort' = IF next = "sectioned" /\ sort.key = "area"
               THEN [key |-> "default", direction |-> "asc"]
               ELSE sort
    /\ UNCHANGED <<now, conferences, areaOrder, pc, arg, ret>>

\* the clock values a timer callback may read
ClockValues ==
    {DateUTC(y, md[1], md[2], h, 0, 0, 0) :
        y \in PivotYears, md \in {<<6, 15>>, <<12, 31>>}, h \in {11, 12, 23}}

\* the interval timer fires: setNow(new Date()), a later reading of the clock
Tick ==
    /\ pc = "idle"
    /\ \E t \in ClockValues : TimeLt(now, t) /\ now' = t
    /\ UNCHANGED <<viewMode, sort, conferences, areaOrder, pc, arg, ret>>

\* renderRow: the resolved deadline of a row, None when the entry is rolling or
\* has no deadline
nextDeadline(conf) ==
    IF IsSome(conf.deadline) /\ ~conf.isRolling
    THEN Some(getNextOccurrence(Get(conf.deadline), now))
    ELSE None

\* renderRow: the countdown text of a row, None when there is no resolved
\* deadline after now
countdown(conf) ==
    IF IsSome(nextDeadline(conf)) /\ TimeLt(now, Get(nextDeadline(conf)))
    THEN Some(formatCountdown(Get(nextDeadline(conf)), now))
    ELSE None

\* renderRow: the text of the deadline cell; "label" stands for the deadline's
\* own label
deadlineCell(conf) ==
    IF conf.isRolling THEN "Rolling"
    ELSE IF IsSome(conf.deadline) THEN "label"
    ELSE "TBA"

\* renderRow: the text of the countdown cell
countdownCell(conf) ==
    IF conf.isRolling THEN "Always open"
    ELSE IF IsSome(countdown(conf)) THEN Get(countdown(conf))
    ELSE "Closed"

-----------------------------------------------------------------------------
(* Input universes *)

Offset(sign, h, m) == [sign |-> sign, hh |-> pad(h), mm |-> pad(m)]

\* UTC offsets: -12:00, -08:00, +00:00, +05:30, +14:00
Offsets ==
    {Offset(-1, 12, 0), Offset(-1, 8, 0), Offset(1, 0, 0), Offset(1, 5, 30),
     Offset(1, 14, 0)}

\* Recurring deadlines: calendar dates valid in every year, with the first and
\* last minutes of the year among them
Deadlines ==
    {[month |-> md[1], day |-> md[2], hour |-> h, minute |-> mi, offset |-> o] :
        md \in {<<1, 1>>, <<6, 15>>, <<12, 31>>}, h \in {0, 12, 23},
        mi \in {0, 59}, o \in Offsets}

\* Pivots: instants around both ends and the middle of each explored year
Pivots ==
    {DateUTC(y, md[1], md[2], h, 0, 0, ms) :
        y \in PivotYears, md \in {<<1, 1>>, <<6, 15>>, <<12, 31>>},
        h \in {0, 6, 12, 18, 23}, ms \in {0, 1, 999}}

-----------------------------------------------------------------------------
(* Home state outside the specification at hand *)

InitialSort == [key |-> "default", direction |-> "asc"]

HomeIdle ==
    /\ now = DateUTC(BaseYear, 1, 1, 0, 0, 0, 0)
    /\ viewMode = "combined"
    /\ sort = InitialSort
    /\ conferences = <<>>
    /\ areaOrder = <<>>

-----------------------------------------------------------------------------
(* SpecNext: getNextOccurrence applied to every deadline and pivot *)

InitNext ==
    /\ HomeIdle
    /\ pc = "call"
    /\ arg \in {[deadline |-> d, pivot |-> p] : d \in Deadlines, p \in Pivots}
    /\ ret = arg.pivot

CallNext ==
    /\ pc = "call"
    /\ pc' = "done"
    /\ ret' = getNextOccurrence(arg.deadline, arg.pivot)
    /\ UNCHANGED <<now, viewMode, sort, conferences, areaOrder, arg>>

SpecNext == InitNext /\ [][CallNext]_vars

\* C1: for every recurring deadline D and pivot P, getNextOccurrence(D, P) is
\* strictly after P: it is the candidate of P's UTC year + 1 when the candidate
\* of P's UTC year is at or before P, and the same-year candidate otherwise.
C1_NextStrictlyAfterPivot ==
    pc = "done" =>
        LET baseYear == getUTCFullYear(arg.pivot)
            candidate == buildDate(arg.deadline, baseYear)
        IN  /\ TimeLt(arg.pivot, ret)
            /\ TimeLeq(candidate, arg.pivot) =>
                   TimeEq(ret, buildDate(arg.deadline, baseYear + 1))
            /\ ~TimeLeq(candidate, arg.pivot) => TimeEq(ret, candidate)

\* C2: getNextOccurrence(D, P) is the earliest annual occurrence of D strictly
\* after P: no year's occurrence of D lies strictly after P and strictly before
\* the returned instant.
C2_NextIsEarliestOccurrence ==
    pc = "done" =>
        ~\E y \in Years :
            /\ TimeLt(arg.pivot, buildDate(arg.deadline, y))
            /\ TimeLt(buildDate(arg.deadline, y), ret)

-----------------------------------------------------------------------------
(* SpecCountdown: formatCountdown applied to targets before, at and after now *)

\* whole-second distances from now to the target: past, zero, under a minute,
\* minutes, hours, days and a year
CountdownSeconds ==
    {-SecondsPerDay, -1, 0, 1, 59, 60, 245, 3599, 3600, 11045, 86399, 86400,
     183845, 365 * SecondsPerDay}

CountdownNows ==
    {DateUTC(y, 12, 31, 23, 59, 30, ms) : y \in PivotYears, ms \in {0, 1, 999}}

InitCountdown ==
    /\ HomeIdle
    /\ pc = "call"
    /\ arg \in {[target |-> [s |-> n.s + d, ms |-> ms], now |-> n] :
                    n \in CountdownNows, d \in CountdownSeconds, ms \in {0, 1, 999}}
    /\ ret = ""

CallCountdown ==
    /\ pc = "call"
    /\ pc' = "done"
    /\ ret' = formatCountdown(arg.target, arg.now)
    /\ UNCHANGED <<now, viewMode, sort, conferences, areaOrder, arg>>

SpecCountdown == InitCountdown /\ [][CallCountdown]_vars

\* C9: formatCountdown(target, now) is "Closed" exactly when target <= now;
\* otherwise, with s the whole seconds of target - now split into d days,
\* h hours, m minutes and sec seconds, it is "{d}d {h}h {m}m" when d > 0,
\* "{h}h {m}m {sec}s" when d = 0 and h > 0, and "{m}m {sec}s" otherwise,
\* without zero padding.
C9_CountdownText ==
    pc = "done" =>
        LET diff == TimeDiff(arg.target, arg.now) IN
        /\ ret = "Closed" <=> TimeLeq(arg.target, arg.now)
        /\ ~TimeLeq(arg.target, arg.now) =>
               \E d \in 0..366 :
                 /\ d * 86400 <= diff.s /\ diff.s < (d + 1) * 86400
                 /\ \E h \in 0..23 :
                      /\ h * 3600 <= diff.s - d * 86400
                      /\ diff.s - d * 86400 < (h + 1) * 3600
                      /\ \E m \in 0..59 :
                           LET sec == diff.s - d * 86400 - h * 3600 - m * 60 IN
                           /\ sec \in 0..59
                           /\ d > 0 =>
                                  ret = ToString(d) \o "d " \o ToString(h) \o "h "
                                            \o ToString(m) \o "m"
                           /\ (d = 0 /\ h > 0) =>
                                  ret = ToString(h) \o "h " \o ToString(m) \o "m "
                                            \o ToString(sec) \o "s"
                           /\ (d = 0 /\ h = 0) =>
                                  ret = ToString(m) \o "m " \o ToString(sec) \o "s"
        /\ (diff.s = 183845 /\ diff.ms = 0) => ret = "2d 3h 4m"
        /\ (diff.s = 11045 /\ diff.ms = 0) => ret = "3h 4m 5s"
        /\ (diff.s = 245 /\ diff.ms = 0) => ret = "4m 5s"

\* C9 witness: a target exactly 2 days 3 hours 4 minutes 5 seconds ahead of now
\* was formatted
C9_Witness ==
    /\ pc = "done"
    /\ TimeDiff(arg.target, arg.now) = [s |-> 183845, ms |-> 0]
    /\ ret = "2d 3h 4m"

-----------------------------------------------------------------------------
(* SpecCompare: compareConferences applied to every pair of entries under   *)
(* every sort state                                                        *)

SortKeys == {"default", "area", "acronym", "deadline", "countdown", "location"}
SortDirections == {"asc", "desc"}
SortStates == [key : SortKeys, direction : SortDirections]

\* area labels "ML", "CV" and "ZZ"
ML == <<13, 12>>
CV == <<3, 22>>
ZZ == <<26, 26>>

\* 15 June 17:30 +05:30 (12:00 UTC) and 31 December 23:59 UTC
JuneIST == [month |-> 6, day |-> 15, hour |-> 17, minute |-> 30, offset |-> Offset(1, 5, 30)]
YearEnd == [month |-> 12, day |-> 31, hour |-> 23, minute |-> 59, offset |-> Offset(1, 0, 0)]

\* deadline and rolling flag: TBA, rolling, and two dated
DeadlineKinds ==
    {[deadline |-> None, isRolling |-> FALSE], [deadline |-> None, isRolling |-> TRUE]}
      \cup {[deadline |-> Some(d), isRolling |-> FALSE] : d \in {JuneIST, YearEnd}}

Entries ==
    {[acronym |-> ac, area |-> ar, deadline |-> dk.deadline,
      isRolling |-> dk.isRolling, location |-> lo] :
        ac \in {<<1>>, <<2>>}, ar \in {None, Some(ML), Some(ZZ)},
        dk \in DeadlineKinds, lo \in {None, Some(<<16>>)}}

\* The imported area sequence and the clock.  areaOrder is read by the area key
\* alone and now by the default, deadline and countdown keys alone, so each
\* area sequence is paired with one clock value: one before the June deadline,
\* one between it and the end of the year.
CompareEnvs ==
    {[areaOrder |-> <<CV, ML>>, now |-> DateUTC(BaseYear, 3, 1, 0, 0, 0, 0)],
     [areaOrder |-> <<OtherConferences, ML>>, now |-> DateUTC(BaseYear, 9, 1, 0, 0, 0, 500)]}

InitCompare ==
    /\ \E env \in CompareEnvs : now = env.now /\ areaOrder = env.areaOrder
    /\ viewMode = "combined"
    /\ sort \in SortStates
    /\ conferences = <<>>
    /\ pc = "call"
    /\ arg \in [a : Entries, b : Entries]
    /\ ret = 0

CallCompare ==
    /\ pc = "call"
    /\ pc' = "done"
    /\ ret' = compareConferences(arg.a, arg.b, sort, now)
    /\ UNCHANGED <<now, viewMode, sort, conferences, areaOrder, arg>>

SpecCompare == InitCompare /\ [][CallCompare]_vars

Sign(n) == IF n < 0 THEN -1 ELSE IF n > 0 THEN 1 ELSE 0

\* an entry the deadline and countdown keys can resolve to an instant
Resolvable(conf) == ~conf.isRolling /\ IsSome(conf.deadline)

OtherDirection(sortSpec) ==
    [key |-> sortSpec.key,
     direction |-> IF sortSpec.direction = "asc" THEN "desc" ELSE "asc"]

\* C3: under the deadline or countdown key, in both directions, an unresolvable
\* entry (rolling, or without deadline) is never ordered ahead of a resolvable
\* one; the direction only reverses the order inside each partition.
C3_UnresolvableNeverAhead ==
    (pc = "done" /\ sort.key \in {"deadline", "countdown"}) =>
        /\ (Resolvable(arg.a) /\ ~Resolvable(arg.b)) => ret < 0
        /\ (~Resolvable(arg.a) /\ Resolvable(arg.b)) => ret > 0
        /\ (Resolvable(arg.a) <=> Resolvable(arg.b)) =>
               Sign(ret) = -Sign(compareConferences(arg.a, arg.b, OtherDirection(sort), now))

InAreaOrder(label) == \E i \in DOMAIN areaOrder : areaOrder[i] = label

\* the entry's area is present and listed in areaOrder
AreaListed(conf) == IsSome(conf.area) /\ InAreaOrder(Get(conf.area))

\* C4 as claimed: under the area key, in both directions, an entry whose area
\* is absent or not listed in areaOrder is ordered after every entry whose area
\* is listed.
C4_UnlistedAfterListedBothDirections ==
    (pc = "done" /\ sort.key = "area") =>
        /\ (~AreaListed(arg.a) /\ AreaListed(arg.b)) => ret > 0
        /\ (AreaListed(arg.a) /\ ~AreaListed(arg.b)) => ret < 0

\* C4 as amended: under the area key, an entry whose area label (the area, or
\* "Other Conferences" when it is absent) is not in areaOrder is ordered after
\* every entry whose area label is in areaOrder when the direction is asc, and
\* before every such entry when the direction is desc.
C4_UnlistedAfterListedAscBeforeDesc ==
    (pc = "done" /\ sort.key = "area") =>
        LET direction == IF sort.direction = "asc" THEN 1 ELSE -1 IN
        /\ (~InAreaOrder(areaLabelFor(arg.a)) /\ InAreaOrder(areaLabelFor(arg.b))) =>
               Sign(ret) = direction
        /\ (InAreaOrder(areaLabelFor(arg.a)) /\ ~InAreaOrder(areaLabelFor(arg.b))) =>
               Sign(ret) = -direction

\* C4 witness: under (area, desc) an entry with an unlisted area was compared
\* with an entry with a listed one and ordered before it
C4_Witness ==
    /\ pc = "done"
    /\ sort = [key |-> "area", direction |-> "desc"]
    /\ IsSome(arg.a.area) /\ ~InAreaOrder(areaLabelFor(arg.a))
    /\ InAreaOrder(areaLabelFor(arg.b))
    /\ ret < 0

\* C7: for every sort key, direction and now, compareConferences is a strict
\* weak ordering: compare(a, a) = 0, the sign of compare(a, b) is the opposite
\* of the sign of compare(b, a), "less than" is transitive and "compares equal"
\* is transitive; it returns a number for every pair.
C7_StrictWeakOrdering ==
    pc = "done" =>
        /\ ret \in Int
        /\ arg.a = arg.b => ret = 0
        /\ Sign(ret) = -Sign(compareConferences(arg.b, arg.a, sort, now))
        /\ \A c \in Entries :
             LET bc == compareConferences(arg.b, c, sort, now)
                 ac == compareConferences(arg.a, c, sort, now)
             IN  /\ (ret < 0 /\ bc < 0) => ac < 0
                 /\ (ret = 0 /\ bc = 0) => ac = 0

\* C7 witness: under the location key a rolling entry with neither area nor
\* location was compared with a TBA entry that has a location, and ordered
\* before it
C7_Witness ==
    /\ pc = "done"
    /\ sort.key = "location"
    /\ arg.a.isRolling /\ ~arg.b.isRolling /\ ~IsSome(arg.b.deadline)
    /\ ~IsSome(arg.a.area) /\ ~IsSome(arg.a.location) /\ IsSome(arg.b.location)
    /\ ret < 0

\* C8: under the default key an entry with a usable deadline is ordered before
\* every entry without one whatever the acronyms; two dated entries are ordered
\* by resolved next occurrence ascending, then by acronym ascending; two
\* undated entries by acronym ascending; and the direction changes nothing.
C8_DefaultOrdering ==
    (pc = "done" /\ sort.key = "default") =>
        LET a == arg.a
            b == arg.b
            byAcronym == localeCompare(a.acronym, b.acronym)
        IN  /\ (Resolvable(a) /\ ~Resolvable(b)) => ret < 0
            /\ (~Resolvable(a) /\ Resolvable(b)) => ret > 0
            /\ (Resolvable(a) /\ Resolvable(b)) =>
                   LET nextA == getNextOccurrence(Get(a.deadline), now)
                       nextB == getNextOccurrence(Get(b.deadline), now)
                   IN  /\ TimeLt(nextA, nextB) => ret < 0
                       /\ TimeLt(nextB, nextA) => ret > 0
                       /\ TimeEq(nextA, nextB) => Sign(ret) = byAcronym
            /\ (~Resolvable(a) /\ ~Resolvable(b)) => Sign(ret) = byAcronym
            /\ ret = compareConferences(a, b, OtherDirection(sort), now)

\* C8 witness: under (default, desc) a dated entry with the later acronym was
\* ordered before a rolling entry with the earlier acronym
C8_Witness ==
    /\ pc = "done"
    /\ sort = [key |-> "default", direction |-> "desc"]
    /\ Resolvable(arg.a) /\ arg.b.isRolling
    /\ localeCompare(arg.a.acronym, arg.b.acronym) > 0
    /\ ret < 0

-----------------------------------------------------------------------------
(* SpecView: the sectioned view rendered for every catalog and area sequence *)

\* a further unlisted area label, "YY"
YY == <<25, 25>>

ViewAreas == {None, Some(ML), Some(CV), Some(ZZ), Some(YY)}

ViewAreaOrders == {<<ML, CV>>, <<CV, ML, OtherConferences>>}

\* catalogs of up to MaxCatalog entries with distinct ids: every choice of area
\* and acronym for each entry; the even entries are rolling, the odd ones TBA
Catalogs ==
    UNION {
        {[i \in 1..n |->
            [id |-> i, acronym |-> acs[i], area |-> ars[i], deadline |-> None,
             isRolling |-> (i % 2 = 0), location |-> None]] :
          acs \in [1..n -> {<<1>>, <<2>>}], ars \in [1..n -> ViewAreas]} :
        n \in 0..MaxCatalog}

InitView ==
    /\ now = DateUTC(BaseYear, 3, 1, 0, 0, 0, 0)
    /\ viewMode = "sectioned"
    /\ sort \in {InitialSort, [key |-> "acronym", direction |-> "desc"]}
    /\ conferences \in Catalogs
    /\ areaOrder \in ViewAreaOrders
    /\ pc = "call"
    /\ arg = <<>>
    /\ ret = <<>>

RenderSectioned ==
    /\ pc = "call"
    /\ viewMode = "sectioned"
    /\ pc' = "done"
    /\ ret' = SectionedView
    /\ UNCHANGED <<now, viewMode, sort, conferences, areaOrder, arg>>

SpecView == InitView /\ [][RenderSectioned]_vars

\* the number of rows rendered for the catalog entry with the given id
RenderedCount(id) ==
    LET Count(g) == Cardinality({j \in DOMAIN ret[g].rows : ret[g].rows[j].id = id})
        Sum[g \in 0..Len(ret)] == IF g = 0 THEN 0 ELSE Sum[g - 1] + Count(g)
    IN  Sum[Len(ret)]

\* C5: in the sectioned view the rendered groups hold every catalog entry
\* exactly once: no entry is rendered twice, no group label is rendered twice,
\* and no entry is omitted.
C5_EveryEntryRenderedOnce ==
    pc = "done" =>
        /\ \A i \in DOMAIN conferences : RenderedCount(conferences[i].id) = 1
        /\ \A g, h \in DOMAIN ret : ret[g].area = ret[h].area => g = h

\* C6 as claimed: an entry whose area is absent or not in areaOrder appears
\* only in the "Other Conferences" group.
C6_UnlistedOnlyInOther ==
    pc = "done" =>
        \A g \in DOMAIN ret : \A j \in DOMAIN ret[g].rows :
            LET conf == ret[g].rows[j] IN
            ~AreaListed(conf) => ret[g].area = OtherConferences

\* C6 as amended: an entry with no area appears only in groups labelled "Other
\* Conferences"; an entry whose area is not in areaOrder appears only in the
\* group labelled with its own area.
C6_UnlistedOnlyUnderOwnLabel ==
    pc = "done" =>
        \A g \in DOMAIN ret : \A j \in DOMAIN ret[g].rows :
            LET conf == ret[g].rows[j] IN
            /\ ~IsSome(conf.area) => ret[g].area = OtherConferences
            /\ (IsSome(conf.area) /\ ~InAreaOrder(Get(conf.area))) =>
                   ret[g].area = Get(conf.area)

\* C6 witness: the rendered sections hold an entry with an unlisted area under
\* that area's label and an entry with no area under "Other Conferences"
C6_Witness ==
    /\ pc = "done"
    /\ viewMode = "sectioned"
    /\ \E g \in DOMAIN ret : \E j \in DOMAIN ret[g].rows :
           /\ ret[g].rows[j].area = Some(ZZ)
           /\ ret[g].area = ZZ
    /\ \E g \in DOMAIN ret : \E j \in DOMAIN ret[g].rows :
           /\ ret[g].rows[j].area = None
           /\ ret[g].area = OtherConferences

-----------------------------------------------------------------------------
(* Spec: the Home component from its mount on *)

\* sample catalogs: a dated, a rolling and a TBA entry, with and without areas
HomeCatalogs ==
    {<<[id |-> 1, acronym |-> <<1>>, area |-> Some(ML), deadline |-> Some(JuneIST),
        isRolling |-> FALSE, location |-> Some(<<16>>)],
       [id |-> 2, acronym |-> <<2>>, area |-> Some(CV), deadline |-> None,
        isRolling |-> TRUE, location |-> None]>>,
     <<[id |-> 1, acronym |-> <<2>>, area |-> None, deadline |-> None,
        isRolling |-> FALSE, location |-> None],
       [id |-> 2, acronym |-> <<1>>, area |-> Some(ZZ), deadline |-> Some(YearEnd),
        isRolling |-> FALSE, location |-> None]>>}

Init ==
    /\ now \in {DateUTC(BaseYear, 1, 1, 0, 0, 0, 0), DateUTC(BaseYear, 6, 15, 11, 59, 59, 500)}
    /\ viewMode = "combined"
    /\ sort = InitialSort
    /\ conferences \in HomeCatalogs
    /\ areaOrder = <<ML, CV>>
    /\ pc = "idle"
    /\ arg = <<>>
    /\ ret = <<>>

Next ==
    \/ Tick
    \/ \E key \in SortKeys \ {"default"} : HandleSort(key)
    \/ \E next \in {"combined", "sectioned"} : HandleViewChange(next)

Spec == Init /\ [][Next]_vars

\* C10: a click on the header of column K makes the sort state (K, asc) when K
\* is not the active key, (K, desc) when K is active ascending and (default,
\* asc) when K is active descending; so the click and two more clicks on the
\* same header pass only through (K, asc), (K, desc) and (default, asc), and one
\* of the three leaves the sort state at (default, asc).
C10_HeaderClickCycle ==
    [][\A key \in SortKeys \ {"default"} :
          HandleSort(key) =>
            LET asc == [key |-> key, direction |-> "asc"]
                desc == [key |-> key, direction |-> "desc"]
                s1 == sort'
                s2 == nextSort(s1, key)
                s3 == nextSort(s2, key)
            IN  /\ sort.key # key => s1 = asc
                /\ sort = asc => s1 = desc
                /\ sort = desc => s1 = InitialSort
                /\ {s1, s2, s3} = {asc, desc, InitialSort}
                /\ (s1 = asc /\ s2 = desc /\ s3 = InitialSort)
                     \/ (s1 = desc /\ s2 = InitialSort)
                     \/ s1 = InitialSort]_vars

\* C10 witness: two clicks on the Location header have left the sort state at
\* (location, desc), from which the third click returns to (default, asc)
C10_Witness ==
    /\ pc = "idle"
    /\ sort = [key |-> "location", direction |-> "desc"]
    /\ nextSort(sort, "location") = InitialSort


\* C11: from the initial state (combined view, default sort), with the Area
\* header clickable in the combined view only, the state never has the
\* sectioned view together with the area key: a switch to the sectioned view
\* while the area key is active resets the sort to (default, asc), and every
\* other switch leaves the sort unchanged.
C11_NoAreaSortInSectionedView ==
    /\ [](~(viewMode = "sectioned" /\ sort.key = "area"))
    /\ [][\A next \in {"combined", "sectioned"} :
            HandleViewChange(next) =>
              /\ viewMode' = next
              /\ (next = "sectioned" /\ sort.key = "area") => sort' = InitialSort
              /\ ~(next = "sectioned" /\ sort.key = "area") => sort' = sort]_vars

\* C11 witness: in the combined view the area key is active, descending, and
\* the switch to the sectioned view from here resets the sort
C11_Witness ==
    /\ viewMode = "combined"
    /\ sort = [key |-> "area", direction |-> "desc"]
    /\ ENABLED (HandleViewChange("sectioned") /\ sort' = InitialSort)


\* C17: after any sequence of ticks, header clicks (area, acronym, deadline,
\* countdown, location) and view toggles from the initial state, the default
\* key always has the direction asc: (default, desc) is never reached.
C17_DefaultKeyIsAscending ==
    sort.key = "default" => sort.direction = "asc"

\* C17 witness: the sort is back at the default key after ticks, a view toggle
\* and header clicks on a column whose descending state can only be left
\* through the default key
C17_Witness ==
    /\ sort.key = "default"
    /\ viewMode = "sectioned"
    /\ now \in ClockValues
    /\ nextSort([key |-> "acronym", direction |-> "desc"], "acronym") = sort


\* C12: for every entry and every now, the countdown / status string rendered
\* for the entry is "Always open" when it is rolling, "TBA" when it is not
\* rolling and has no deadline, "Closed" when its resolved deadline is not after
\* now, and the formatCountdown text of its resolved next occurrence otherwise.
C12_StatusString ==
    \A i \in DOMAIN conferences :
        LET conf == conferences[i] IN
        IF conf.isRolling THEN countdownCell(conf) = "Always open"
        ELSE IF ~IsSome(conf.deadline) THEN countdownCell(conf) = "TBA"
        ELSE LET next == getNextOccurrence(Get(conf.deadline), now) IN
             IF TimeLeq(next, now) THEN countdownCell(conf) = "Closed"
             ELSE countdownCell(conf) = formatCountdown(next, now)


\* C15: the resolved next occurrence stays constant until now reaches it: for
\* every deadline D and pivots P1 < P2 with P2 < getNextOccurrence(D, P1),
\* getNextOccurrence(D, P2) = getNextOccurrence(D, P1).
C15_NextConstantUntilReached ==
    pc = "done" =>
        \A p2 \in Pivots :
            (TimeLt(arg.pivot, p2) /\ TimeLt(p2, ret)) =>
                TimeEq(getNextOccurrence(arg.deadline, p2), ret)


\* the area labels entries carry themselves, in first-seen catalog order
RECURSIVE UsedAreas(_)
UsedAreas(catalog) ==
    IF catalog = <<>> THEN <<>>
    ELSE LET front == UsedAreas(SubSeq(catalog, 1, Len(catalog) - 1))
             last == catalog[Len(catalog)]
         IN  IF ~IsSome(last.area) \/ \E i \in DOMAIN front : front[i] = Get(last.area)
             THEN front
             ELSE Append(front, Get(last.area))

\* the group order as claimed: areaOrder, then the used labels not in
\* areaOrder, then "Other Conferences", each only when it has a member
ClaimedAreaOrder ==
    LET Unlisted(area) == ~InAreaOrder(area)
        HasMember(area) == \E i \in DOMAIN conferences : areaLabelFor(conferences[i]) = area
    IN  SelectSeq(areaOrder \o SelectSeq(UsedAreas(conferences), Unlisted)
                    \o <<OtherConferences>>, HasMember)

\* C13: the sectioned view iterates the groups in the order: the areaOrder
\* labels in declared order, then the labels used by entries but not in
\* areaOrder in first-seen order, then "Other Conferences" last; only groups
\* with a member are included, and the rows of each group are the entries of
\* that label ordered by compareConferences under the active sort and now.
C13_GroupOrder ==
    pc = "done" =>
        /\ [g \in DOMAIN ret |-> ret[g].area] = ClaimedAreaOrder
        /\ \A g \in DOMAIN ret :
              /\ Len(ret[g].rows) > 0
              /\ \A j \in DOMAIN ret[g].rows : areaLabelFor(ret[g].rows[j]) = ret[g].area
              /\ \A i \in DOMAIN conferences :
                    areaLabelFor(conferences[i]) = ret[g].area =>
                        \E j \in DOMAIN ret[g].rows : ret[g].rows[j] = conferences[i]
              /\ \A j, k \in DOMAIN ret[g].rows :
                    j < k => compareConferences(ret[g].rows[j], ret[g].rows[k], sort, now) <= 0


\* the position of the first rendered group with the given label
FirstGroup(area) ==
    CHOOSE g \in DOMAIN ret :
        /\ ret[g].area = area
        /\ \A h \in 1..(g - 1) : ret[h].area # area

\* C16: the group order of the sectioned view agrees with the area sort of the
\* combined view: for two entries a and b in different groups, a's group is
\* rendered before b's group if and only if compareConferences orders a before
\* b under (area, asc).
C16_GroupOrderAgreesWithAreaSort ==
    pc = "done" =>
        \A i, j \in DOMAIN conferences :
            LET a == conferences[i]
                b == conferences[j]
            IN  areaLabelFor(a) # areaLabelFor(b) =>
                    (FirstGroup(areaLabelFor(a)) < FirstGroup(areaLabelFor(b))
                       <=> compareConferences(a, b, [key |-> "area", direction |-> "asc"], now) < 0)


-----------------------------------------------------------------------------
(* SpecUpcoming: the upcoming projection under changes of sort and view *)

\* deadline and rolling flag of the entry at position i: either of two dated
\* kinds and, at two positions, one the filter drops: rolling with a deadline
\* at the second, TBA at the fifth
UpcomingKinds(i) ==
    {[deadline |-> Some(JuneIST), isRolling |-> FALSE],
     [deadline |-> Some(YearEnd), isRolling |-> FALSE]}
      \cup (IF i = 2 THEN {[deadline |-> Some(JuneIST), isRolling |-> TRUE]}
            ELSE IF i = 5 THEN {[deadline |-> None, isRolling |-> FALSE]}
            ELSE {})

\* catalogs of up to MaxUpcoming entries with distinct ids
UpcomingCatalogs ==
    UNION {
        {[i \in 1..n |->
            [id |-> i, acronym |-> <<i>>, area |-> None, deadline |-> ks[i].deadline,
             isRolling |-> ks[i].isRolling, location |-> None]] :
          ks \in {f \in [1..n -> UNION {UpcomingKinds(i) : i \in 1..n}] :
                    \A i \in 1..n : f[i] \in UpcomingKinds(i)}} :
        n \in 0..MaxUpcoming}

InitUpcoming ==
    /\ now \in {DateUTC(BaseYear, 3, 1, 0, 0, 0, 0), DateUTC(BaseYear, 9, 1, 0, 0, 0, 0)}
    /\ viewMode = "combined"
    /\ sort = InitialSort
    /\ conferences \in UpcomingCatalogs
    /\ areaOrder = <<ML, CV>>
    /\ pc = "call"
    /\ arg = <<>>
    /\ ret = <<>>

\* a render of Home computes the projection from the state at hand
RenderUpcoming ==
    /\ pc \in {"call", "idle"}
    /\ pc' = "idle"
    /\ ret' = upcoming
    /\ UNCHANGED <<now, viewMode, sort, conferences, areaOrder, arg>>

NextUpcoming ==
    \/ RenderUpcoming
    \/ \E key \in SortKeys \ {"default"} : HandleSort(key)
    \/ \E next \in {"combined", "sectioned"} : HandleViewChange(next)

SpecUpcoming == InitUpcoming /\ [][NextUpcoming]_vars

\* the catalog positions of the non-rolling entries with a deadline
ResolvableEntries ==
    {i \in DOMAIN conferences : IsSome(conferences[i].deadline) /\ ~conferences[i].isRolling}

\* C14: the upcoming projection has exactly min(4, k) entries, k the number of
\* non-rolling entries with a deadline; it has no rolling or deadline-less
\* entry; its entries are in non-decreasing order of resolved next-occurrence
\* instant; every resolvable entry left out has an instant at or after that of
\* every entry included; and its content depends only on the catalog and now:
\* a render after a change of sort key, direction or view mode yields the same
\* content.
C14_UpcomingProjection ==
    /\ [](pc = "idle" =>
            LET k == Cardinality(ResolvableEntries)
                Included(i) == \E j \in DOMAIN ret : ret[j].conf = conferences[i]
                Instant(i) == getNextOccurrence(Get(conferences[i].deadline), now)
            IN  /\ Len(ret) = IF k < 4 THEN k ELSE 4
                /\ \A j \in DOMAIN ret :
                      /\ \E i \in ResolvableEntries :
                            ret[j].conf = conferences[i] /\ TimeEq(ret[j].date, Instant(i))
                      /\ \A h \in DOMAIN ret : ret[j].conf.id = ret[h].conf.id => j = h
                /\ \A j, h \in DOMAIN ret : j < h => TimeLeq(ret[j].date, ret[h].date)
                /\ \A i \in ResolvableEntries :
                      ~Included(i) => \A j \in DOMAIN ret : TimeLeq(ret[j].date, Instant(i)))
    /\ [][(pc = "idle" /\ RenderUpcoming) => ret' = ret]_vars

\* C14 witness: five resolvable entries beside a rolling entry with a deadline,
\* the projection rendered with four of them, in the sectioned view under a
\* descending sort, with an entry left out
C14_Witness ==
    /\ pc = "idle"
    /\ Cardinality(ResolvableEntries) > 4
    /\ \E i \in DOMAIN conferences : conferences[i].isRolling /\ IsSome(conferences[i].deadline)
    /\ Len(ret) = 4
    /\ ret[1].conf.id > ret[4].conf.id
    /\ viewMode = "sectioned"
    /\ sort.direction = "desc"

====
